---------------------------- MODULE Spec2Model ----------------------------
(***************************************************************************)
(* Trade execution and risk sizing engine of perplextrader.                *)
(*                                                                         *)
(*   src/core/agent.py          execute_trade, calculate_position_size,    *)
(*                              get_market_price, ensure_leverage, Order,  *)
(*                              MockBluefinClient, RiskManager             *)
(*   src/core/bluefin_client.py BluefinSuiClient: place_order, the Order   *)
(*                              Ledger (self.orders) and the settlement,   *)
(*                              requeue and cancellation event handlers    *)
(*   src/agent.py               execute_trade(client, trade_rec,           *)
(*                              account_info), RiskManager                 *)
(*                                                                         *)
(* Three specifications share the variables of this module:                *)
(*   Spec        one execute_trade invocation after another, of the        *)
(*               program that runs: src/core/agent.py or src/agent.py      *)
(*   LedgerSpec  place_order and the event handlers of BluefinSuiClient    *)
(*   SizerSpec   the two position sizers applied to bounded inputs         *)
(*                                                                         *)
(* Units.  Python floats are modelled by exact arithmetic:                 *)
(*   percentages   integers, in percent        (0.05 is 5)                 *)
(*   quantities    integers, in thousandths    (0.001 is 1)                *)
(*   ratios        records [n, d] with d > 0   (exact rationals)           *)
(***************************************************************************)
EXTENDS Integers, Sequences, FiniteSets, TLC

VARIABLES
    \* ---- execute_trade (src/core/agent.py) ----
    client,         \* the global client: None or a client profile
    exLeverage,     \* leverage the exchange holds for the symbol
    pc,             \* position of the running execute_trade invocation
    args,           \* arguments of the invocation, env defaults resolved
    position_size,  \* local position_size (thousandths) or None
    sizerRaised,    \* TRUE when calculate_position_size took its except path
    sizing,         \* what calculate_position_size was given and returned, or None
    leverage_ok,    \* what ensure_leverage returned: "unset", "true", "false"
    market_price,   \* local market_price or None
    main_order,     \* local main_order: "unset" or the primary result
    calls,          \* exchange calls issued by the invocation, in order
    legStatus,      \* per protective leg: "none", "skipped", "ok", "failed"
    ret,            \* value returned by execute_trade, Pending until then
    \* ---- BluefinSuiClient (src/core/bluefin_client.py) ----
    orders,         \* self.orders: order hash -> Order
    requeue_counts, \* self.requeue_counts: order hash -> count
    inflight,       \* place_order suspended in post_signed_order, or None
    usedHashes,     \* hashes the signer has already produced
    hist,           \* per Ledger key: the price at the last registration,
                    \* the requeue and settlement events handled since,
                    \* and whether a second Order was stored under the key
    lastEvent,      \* the event handled last
    evCount,        \* number of events handled so far
    \* ---- position sizers ----
    szIn,           \* inputs of the sizer under test
    szOut,          \* its result: "pending" or a record
    \* ---- execute_trade (src/agent.py) ----
    program,        \* the program that runs: "core" or "agent"
    library,        \* client library src/agent.py imported: "sui", "v2", "none"
    a_client,       \* the client argument: None or a client profile
    a_pc,           \* position of the running invocation
    trade_rec,      \* the trade_rec argument
    account_info,   \* the account_info argument: None or the balance
    a_size,         \* local position_size in ten-thousandths
    a_calls,        \* exchange calls issued by the invocation, in order
    execution_result, \* value returned, Pending until then
    \* ---- the main loops (main of src/core/agent.py and of src/agent.py) ----
    loop_pc,        \* position of main(), "off" when main() does not run
    iteration,      \* iterations of the loop started so far
    errors,         \* iterations that ended in the loop's except clause
    raisedAt,       \* the step of this iteration that raised, "" when none
    tries,          \* attempts of get_account_info made in this iteration
    \* ---- process_alerts (src/core/agent.py) ----
    mock_env,       \* environment variable MOCK_TRADING: "unset" or its value
    MOCK_TRADING,   \* the module global MOCK_TRADING
    alerts,         \* the files of the alerts directory
    todo,           \* files of this pass's os.listdir not handled yet
    alert_path,     \* the file whose trade is running, or None
    seen            \* per file: times it was read, ensure_leverage calls and
                    \* execute_trade calls made for it

tradeVars  == <<client, exLeverage, pc, args, position_size, sizerRaised,
                sizing, leverage_ok, market_price, main_order, calls, legStatus, ret>>
ledgerVars == <<orders, requeue_counts, inflight, usedHashes, hist, lastEvent,
                evCount>>
sizerVars  == <<szIn, szOut>>
agentVars  == <<program, library, a_client, a_pc, trade_rec, account_info,
                a_size, a_calls, execution_result>>
loopVars   == <<loop_pc, iteration, errors, raisedAt, tries>>
alertVars  == <<mock_env, MOCK_TRADING, alerts, todo, alert_path, seen>>
vars       == <<tradeVars, ledgerVars, sizerVars, agentVars, loopVars, alertVars>>

\* What the actions of one part leave alone
notTrade  == <<ledgerVars, sizerVars, agentVars, loopVars, alertVars>>
notLedger == <<tradeVars, sizerVars, agentVars, loopVars, alertVars>>
notSizer  == <<tradeVars, ledgerVars, agentVars, loopVars, alertVars>>
notAgent  == <<tradeVars, ledgerVars, sizerVars, loopVars, alertVars>>

\* What the main loop of src/core/agent.py and that of src/agent.py leave alone
notAlertLoop   == <<ledgerVars, sizerVars, agentVars>>
notTradingLoop == <<tradeVars, ledgerVars, sizerVars, alertVars>>

\* An optional value: <<>> is Python's None, <<x>> holds x
None    == <<>>
Some(x) == <<x>>
Val(o)  == o[1]

-----------------------------------------------------------------------------
(* Exact arithmetic standing for Python floats *)

Abs(x) == IF x < 0 THEN -x ELSE x

Rat(n, d) == [n |-> n, d |-> d]

RatMul(r, n, d) == [n |-> r.n * n, d |-> r.d * d]

RatEq(r, s) == r.n * s.d = s.n * r.d

\* round(n/d) to the nearest integer, ties to even, as round() of Python 3
RoundHalfEvenNat(n, d) ==
    LET q == n \div d
        r == n % d
    IN  IF 2 * r < d THEN q
        ELSE IF 2 * r > d THEN q + 1
        ELSE IF q % 2 = 0 THEN q ELSE q + 1

RoundHalfEven(n, d) ==
    IF n >= 0 THEN RoundHalfEvenNat(n, d) ELSE -RoundHalfEvenNat(-n, d)

-----------------------------------------------------------------------------
(* Configuration defaults, src/core/agent.py *)

MaxPositionSizeUsd == 1000  \* TRADING_PARAMS["max_position_size_usd"]
MaxRiskPerTradePct == 2     \* RISK_PARAMS["max_risk_per_trade"] = 0.02
SizerStopLossPct   == 5     \* RISK_PARAMS.get("stop_loss_percentage", 0.05)
FallbackQty        == 1     \* return 0.001
QtyPrecision       == 1000  \* round(position_size, 3)
EnvRiskPct         == 2     \* DEFAULT_RISK_PERCENTAGE default 0.02
EnvStopLossPct     == 5     \* DEFAULT_STOP_LOSS_PERCENTAGE default 0.05
EnvLeverage        == 5     \* DEFAULT_LEVERAGE default "5"
DefaultPrice       == 100   \* get_market_price last resort
RmAccountBalance   == 1000  \* RiskManager: initial_account_balance default
RmRiskPerTradePct  == 1     \* RiskManager: risk_per_trade default 0.01

\* Python truthiness of an optional number
Truthy(o) == o # None /\ Val(o) # 0

\* Python "a or b" where a is an optional number and b a number
PyOr(a, b) == IF Truthy(a) THEN Val(a) ELSE b

\* How a call that raised is logged: "timeout" is a transient I/O error
\* (asyncio.TimeoutError, ConnectionError), "raise" any other exception
Raises == {"raise", "timeout"}

\* The outcome of an awaited call that returns a number
Raised      == [raised |-> TRUE, v |-> 0]
Returned(x) == [raised |-> FALSE, v |-> x]

-----------------------------------------------------------------------------
(* calculate_position_size, src/core/agent.py:2032-2088 *)

\* The arithmetic of the try block once balance and price are known
\* (balance, price: numbers; risk, sl: percent).  raised stands for the
\* ZeroDivisionError of the division; qty is the rounded position size.
SizerArithmetic(balance, risk, sl, price) ==
    IF price * sl = 0
    THEN [raised |-> TRUE, qty |-> 0]
    ELSE LET \* position_size = risk_amount / (current_price * stop_loss_percentage)
             pn == balance * risk
             pd == price * sl
             \* max_position_size = max_position_size_usd / current_price
             mn == MaxPositionSizeUsd
             md == price
             \* min(position_size, max_position_size)
             capped == pn * md > mn * pd
             n == IF capped THEN mn ELSE pn
             d == IF capped THEN md ELSE pd
         IN  [raised |-> FALSE, qty |-> RoundHalfEven(QtyPrecision * n, d)]

\* A mutant of SizerOnException: the except clause re-raises
SizerOnExceptionReraise == [raised |-> TRUE, escaped |-> TRUE, qty |-> 0]

\* The except clause: log and return the minimal position size
SizerOnException == [raised |-> TRUE, escaped |-> FALSE, qty |-> FallbackQty]

\* calculate_position_size as a whole.  balance is the outcome of the
\* balance query (Raised when the query raised or the client has neither
\* balance operation), risk_arg and sl_arg are optional percentages.
calculate_position_size(balance, risk_arg, sl_arg, price) ==
    LET risk == PyOr(risk_arg, MaxRiskPerTradePct)
        sl   == PyOr(sl_arg, SizerStopLossPct)
        a    == SizerArithmetic(balance.v, risk, sl, price)
    IN  IF balance.raised \/ a.raised
        THEN SizerOnException
        ELSE [raised |-> FALSE, escaped |-> FALSE, qty |-> a.qty]

\* RiskManager.calculate_position_size, src/core/agent.py:583-588.
\* The result is an exact ratio: the code does not round it.
RiskManager_calculate_position_size(entry_price, stop_loss) ==
    LET risk_amount_pct == RmAccountBalance * RmRiskPerTradePct
        price_risk      == Abs(entry_price - stop_loss)
    IN  IF price_risk = 0 THEN Rat(0, 1)
        ELSE Rat(risk_amount_pct, 100 * price_risk)

-----------------------------------------------------------------------------
(* The Order Ledger of BluefinSuiClient, src/core/bluefin_client.py *)

MaxOrders  == 1   \* order hashes the signer can produce are 1..MaxOrders
MaxEvents  == 3   \* events delivered in one run
EmptyHash  == 0   \* signed_order.get('orderHash', '') without an orderHash
REQUEUE_ADJUSTMENT_THRESHOLD == 2

Hashes == 1..MaxOrders

\* class Order, src/core/agent.py:2236-2262 (created_at left out)
Order(symbol, side, quantity, order_type, price, leverage, order_hash, status) ==
    [symbol |-> symbol, side |-> side, quantity |-> quantity,
     order_type |-> order_type, price |-> price, leverage |-> leverage,
     hash |-> order_hash, status |-> status,
     settlement_status |-> "pending", requeue_count |-> 0,
     cancelled |-> FALSE, fill_price |-> 0, matched_quantity |-> 0,
     is_maker |-> FALSE]

\* self.orders.get(h)
HasOrder(h) == h \in DOMAIN orders

\* d[k] = v on a Python dict
DictSet(d, k, v) == [x \in DOMAIN d \cup {k} |-> IF x = k THEN v ELSE d[x]]

\* d.get(k, 0)
DictGet0(d, k) == IF k \in DOMAIN d THEN d[k] ELSE 0

\* save_order(order), src/core/bluefin_client.py:468-485: the Ledger after
\* it.  An existing entry gets every attribute of order, otherwise order is
\* stored under its own hash.
save_order(ledger, order) ==
    IF order.hash \in DOMAIN ledger
    THEN [ledger EXCEPT ![order.hash] = order]
    ELSE DictSet(ledger, order.hash, order)

\* The arguments place_order is called with
PlaceArgs ==
    { [symbol |-> "BTC-PERP", side |-> "BUY",  quantity |-> 1,
       order_type |-> "LIMIT",  price |-> Some(100), leverage |-> Some(3)],
      [symbol |-> "BTC-PERP", side |-> "SELL", quantity |-> 1,
       order_type |-> "LIMIT",  price |-> Some(100), leverage |-> None] }

\* The payloads of OrderSettlementUpdate events
SettlementPayloads ==
    { [avgFillPrice |-> 100, quantitySentForSettlement |-> 1, isMaker |-> TRUE],
      [avgFillPrice |-> 101, quantitySentForSettlement |-> 2, isMaker |-> FALSE] }

NoPayload == [avgFillPrice |-> 0, quantitySentForSettlement |-> 0, isMaker |-> FALSE]

NoInflight == [busy |-> FALSE]

\* place_order up to its suspension in post_signed_order
\* (src/core/bluefin_client.py:210-263).  set_leverage (awaited before the
\* try block) and create_signed_order may raise: place_order then raises
\* and nothing is kept.  The signer gives a fresh hash or no orderHash.
place_order_submit ==
    /\ UNCHANGED notLedger
    /\ ~inflight.busy
    /\ \E a \in PlaceArgs, h \in (Hashes \ usedHashes) \cup {EmptyHash},
          outcome \in {"set_leverage raised", "create_signed_order raised", "posted"} :
         /\ (outcome = "set_leverage raised") => a.leverage # None
         /\ IF outcome = "posted"
            THEN /\ inflight' = [busy |-> TRUE, a |-> a, orderHash |-> h]
                 /\ usedHashes' = usedHashes \cup ({h} \ {EmptyHash})
            ELSE UNCHANGED <<inflight, usedHashes>>
    /\ UNCHANGED <<orders, requeue_counts, hist, lastEvent, evCount>>

\* post_signed_order returned: the Order is built and registered
\* (src/core/bluefin_client.py:265-278)
place_order_register ==
    /\ UNCHANGED notLedger
    /\ inflight.busy
    /\ LET a == inflight.a
           h == inflight.orderHash
           order == Order(a.symbol, a.side, a.quantity, a.order_type,
                          IF Truthy(a.price) THEN Rat(Val(a.price), 1) ELSE Rat(0, 1),
                          PyOr(a.leverage, 1), h, "created")
       IN  /\ orders' = DictSet(orders, h, order)
           /\ hist' = DictSet(hist, h, [price |-> order.price, requeues |-> 0,
                                        settlements |-> 0,
                                        shared |-> HasOrder(h)])
    /\ inflight' = NoInflight
    /\ UNCHANGED <<requeue_counts, usedHashes, lastEvent, evCount>>

\* post_signed_order raised: logged and re-raised
\* (src/core/bluefin_client.py:279-281)
place_order_fail ==
    /\ UNCHANGED notLedger
    /\ inflight.busy
    /\ inflight' = NoInflight
    /\ UNCHANGED <<orders, requeue_counts, usedHashes, hist, lastEvent, evCount>>

\* The hashes an event can name
EventHashes == Hashes \cup {EmptyHash}

\* place_order is suspended in post_signed_order with an order of this hash
InFlight(h) == inflight.busy /\ inflight.orderHash = h

\* An event is handed to its handler; known and pending tell whether its
\* order was in the Ledger, or with a suspended place_order, at that moment
Delivered(kind, h, payload) ==
    /\ UNCHANGED notLedger
    /\ evCount < MaxEvents
    /\ evCount' = evCount + 1
    /\ lastEvent' = [kind |-> kind, orderHash |-> h, payload |-> payload,
                     known |-> HasOrder(h), raised |-> FALSE,
                     pending |-> InFlight(h)]

\* A mutant of SettledQuantity: the quantities of the events add up
SettledQuantityAccumulated(order, e) ==
    order.matched_quantity + e.quantitySentForSettlement

\* order.matched_quantity = float(event['quantitySentForSettlement'])
\* (src/core/bluefin_client.py:410)
SettledQuantity(order, e) == e.quantitySentForSettlement

\* A mutant of order_settlement_update_handler: an unknown hash is stored
order_settlement_update_upsert(h, e) ==
    /\ Delivered("OrderSettlementUpdate", h, e)
    /\ orders' = save_order(orders,
           [(IF HasOrder(h) THEN orders[h]
             ELSE Order("", "", 0, "", Rat(0, 1), 1, h, "pending"))
            EXCEPT !.settlement_status = "sent",
                   !.fill_price = e.avgFillPrice,
                   !.matched_quantity = e.quantitySentForSettlement,
                   !.is_maker = e.isMaker])
    /\ UNCHANGED <<requeue_counts, inflight, usedHashes, hist>>

\* order_settlement_update_handler, src/core/bluefin_client.py:390-415
order_settlement_update_handler(h, e) ==
    /\ Delivered("OrderSettlementUpdate", h, e)
    /\ IF HasOrder(h)
       THEN /\ orders' = save_order(orders,
                [orders[h] EXCEPT !.settlement_status = "sent",
                                  !.fill_price = e.avgFillPrice,
                                  !.matched_quantity = SettledQuantity(orders[h], e),
                                  !.is_maker = e.isMaker])
            /\ hist' = [hist EXCEPT ![h].settlements = @ + 1]
       ELSE UNCHANGED <<orders, hist>>
    /\ UNCHANGED <<requeue_counts, inflight, usedHashes>>

\* order_requeue_update_handler, src/core/bluefin_client.py:417-446
order_requeue_update_handler(h) ==
    /\ Delivered("OrderRequeueUpdate", h, NoPayload)
    /\ IF HasOrder(h)
       THEN LET count == DictGet0(requeue_counts, h) + 1
                order == orders[h]
                new_price == IF order.side = "BUY"
                             THEN RatMul(order.price, 101, 100)
                             ELSE RatMul(order.price, 99, 100)
            IN  /\ requeue_counts' = DictSet(requeue_counts, h, count)
                /\ orders' = save_order(orders,
                      IF count > REQUEUE_ADJUSTMENT_THRESHOLD
                      THEN [order EXCEPT !.price = new_price]
                      ELSE order)
                /\ hist' = [hist EXCEPT ![h].requeues = @ + 1]
       ELSE UNCHANGED <<orders, requeue_counts, hist>>
    /\ UNCHANGED <<inflight, usedHashes>>

\* A mutant of order_cancelled_on_reversion_handler: it also overwrites status
order_cancelled_also_status(h) ==
    /\ Delivered("OrderCancelledOnReversionUpdate", h, NoPayload)
    /\ IF HasOrder(h)
       THEN orders' = save_order(orders,
                [orders[h] EXCEPT !.cancelled = TRUE, !.status = "cancelled"])
       ELSE orders' = orders
    /\ UNCHANGED <<requeue_counts, inflight, usedHashes, hist>>

\* order_cancelled_on_reversion_handler, src/core/bluefin_client.py:448-466
order_cancelled_on_reversion_handler(h) ==
    /\ Delivered("OrderCancelledOnReversionUpdate", h, NoPayload)
    /\ IF HasOrder(h)
       THEN orders' = save_order(orders, [orders[h] EXCEPT !.cancelled = TRUE])
       ELSE orders' = orders
    /\ UNCHANGED <<requeue_counts, inflight, usedHashes, hist>>

OnSettlement == \E h \in EventHashes, e \in SettlementPayloads :
                    order_settlement_update_handler(h, e)
OnRequeue    == \E h \in EventHashes : order_requeue_update_handler(h)
OnCancelled  == \E h \in EventHashes : order_cancelled_on_reversion_handler(h)

LedgerInit ==
    /\ orders = << >>
    /\ requeue_counts = << >>
    /\ inflight = NoInflight
    /\ usedHashes = {}
    /\ hist = << >>
    /\ lastEvent = [kind |-> "none", orderHash |-> EmptyHash, payload |-> NoPayload,
                    known |-> FALSE, raised |-> FALSE, pending |-> FALSE]
    /\ evCount = 0

LedgerNext ==
    \/ place_order_submit
    \/ place_order_register
    \/ place_order_fail
    \/ OnSettlement
    \/ OnRequeue
    \/ OnCancelled

-----------------------------------------------------------------------------
(* Exchange clients seen by execute_trade, src/core/agent.py *)

\* class MockBluefinClient, src/core/agent.py:237-465
MockBluefinClient ==
    [kind |-> "mock",
     caps |-> {"get_account_details", "get_margin_bank_balance", "get_orderbook",
               "create_order_signature_request", "create_signed_order",
               "post_signed_order", "create_order", "cancel_order"}]

\* A live client offering the whole capability set: signature flow, leverage
\* read and set, balance query
SignatureClient ==
    [kind |-> "live",
     caps |-> {"get_user_leverage", "set_leverage", "get_margin_bank_balance",
               "create_order_signature_request", "create_signed_order",
               "post_signed_order", "cancel_order"}]

\* A live client with the operations of BluefinSuiClient,
\* src/core/bluefin_client.py:139-485: direct placement, no leverage read
DirectClient ==
    [kind |-> "live",
     caps |-> {"get_account_info", "place_order", "set_leverage",
               "get_market_price", "cancel_order"}]

\* A live client with the operations of the fallback BluefinClient class,
\* src/core/agent.py:469-531: direct placement, leverage read, no setter
StubClient ==
    [kind |-> "live",
     caps |-> {"get_user_leverage", "create_signed_order", "post_signed_order",
               "get_account_info", "place_order"}]

\* A live client with only the first signature operation, and adjust_leverage
PartialClient ==
    [kind |-> "live",
     caps |-> {"get_user_leverage", "adjust_leverage", "get_account_details",
               "create_order_signature_request", "place_order"}]

\* A live client with no order operation at all
BareClient ==
    [kind |-> "live", caps |-> {"get_user_leverage", "get_account_details"}]

\* client = None
NoClient == [kind |-> "none", caps |-> {}]

Clients == {MockBluefinClient, SignatureClient, DirectClient, StubClient,
            PartialClient, BareClient, NoClient}

hasattr(c, name) == name \in c.caps

\* What the balance query of calculate_position_size can give
\* (src/core/agent.py:2054-2061); a missing operation is an AttributeError
BalanceOutcomes(c) ==
    IF c.kind = "mock" THEN {Returned(5000)}
    ELSE IF hasattr(c, "get_margin_bank_balance") \/ hasattr(c, "get_account_details")
    THEN {Raised, Returned(5000)}
    ELSE {Raised}

\* What get_market_price can return (src/core/agent.py:2090-2186): it never
\* raises.  The mock client has only get_orderbook: the BTC-PERP mid price.
\* A live client may report 0 (get_market_price of BluefinSuiClient on an
\* empty order book).
MarketPrices(c) == IF c.kind = "mock" THEN {50050} ELSE {0, DefaultPrice}

-----------------------------------------------------------------------------
(* execute_trade, src/core/agent.py:1283-1494 *)

\* One exchange call of the invocation: the operation, the part of
\* execute_trade that issued it, how it ended and the order it carried
Call(op, leg, out, o) ==
    [op |-> op, leg |-> leg, out |-> out, side |-> o.side,
     order_type |-> o.order_type, price100 |-> o.price100,
     reduce_only |-> o.reduce_only, size |-> o.size]

NoParams == [side |-> "", order_type |-> "", price100 |-> 0,
             reduce_only |-> FALSE, size |-> 0]

\* Results of execute_trade and of the primary submission
Pending   == [kind |-> "pending", symbol |-> "", side |-> "", price |-> None]
RetNone   == [kind |-> "None",    symbol |-> "", side |-> "", price |-> None]
Unset     == [kind |-> "unset",   symbol |-> "", side |-> "", price |-> None]
RaisedRes == [kind |-> "raised",  symbol |-> "", side |-> "", price |-> None]

\* bool(main_order): None and {} are falsy
OrderTruthy(m) == m.kind \in {"dict", "object"}

\* main_order.get exists: main_order is a dict
HasGet(m) == m.kind \in {"dict", "empty"}

\* The invocations of execute_trade; price is never passed by the callers
Invocations ==
    [caller : {"direct"}, symbol : {"BTC-PERP"}, side : {"BUY", "SELL"},
     position_size : {None, Some(50)},
     env_position_size_pct : {None, Some(50)},
     risk_percentage : {None},
     stop_loss_percentage : {None, Some(0), Some(5)},
     take_profit_percentage : {None, Some(10)},
     leverage : {None, Some(3)},
     order_type : {"MARKET", "LIMIT"},
     price : {None}]

\* Invocations with a side that is neither BUY nor SELL: execute_trade
\* does not look at side before the legs (src/core/agent.py:1400, 1409)
OtherSideInvocations ==
    [caller : {"direct"}, symbol : {"BTC-PERP"}, side : {"HOLD"},
     position_size : {Some(50)},
     env_position_size_pct : {None},
     risk_percentage : {None},
     stop_loss_percentage : {None, Some(0)},
     take_profit_percentage : {None},
     leverage : {None},
     order_type : {"MARKET"},
     price : {None}]

\* process_alerts on a {symbol, type} alert with live trading
\* (src/core/agent.py:1529-1567): ensure_leverage(symbol, leverage), then
\* execute_trade with position_size, leverage, stop_loss and take_profit
\* all given (from the alert or from the environment defaults)
AlertInvocations ==
    [caller : {"alert"}, symbol : {"BTC-PERP"}, side : {"BUY", "SELL"},
     position_size : {Some(50)},
     env_position_size_pct : {None},
     risk_percentage : {None},
     stop_loss_percentage : {Some(5)},
     take_profit_percentage : {Some(10)},
     leverage : {Some(3), Some(EnvLeverage)},
     order_type : {"MARKET"},
     price : {None}]

NoArgs == [caller |-> "", symbol |-> "", side |-> "", position_size |-> None,
           env_position_size_pct |-> None, risk_percentage |-> None,
           stop_loss_percentage |-> None, take_profit_percentage |-> None,
           leverage |-> None, order_type |-> "", price |-> None]

\* if position_size is None and os.getenv("DEFAULT_POSITION_SIZE_PCT")
\* (src/core/agent.py:1311-1312): the local position_size
ResolvePositionSize(a) ==
    IF a.position_size = None /\ a.env_position_size_pct # None
    THEN a.env_position_size_pct ELSE a.position_size

\* The other defaults from the environment, src/core/agent.py:1314-1325
\* (DEFAULT_TAKE_PROFIT_PCT and DEFAULT_LEVERAGE unset)
ResolveDefaults(a) ==
    [a EXCEPT
       !.risk_percentage = IF a.risk_percentage = None
                           THEN Some(EnvRiskPct) ELSE a.risk_percentage,
       !.stop_loss_percentage = IF a.stop_loss_percentage = None
                                THEN Some(EnvStopLossPct)
                                ELSE a.stop_loss_percentage]

\* leverage_value = leverage or int(os.getenv("DEFAULT_LEVERAGE", "5"))
leverage_value == PyOr(args.leverage, EnvLeverage)

\* Keyword arguments execute_trade adds to create_order_signature_request
PrimaryKwargs == {"leverage"}
LegKwargs     == {"reduce_only", "leverage"}

\* MockBluefinClient.create_order_signature_request, src/core/agent.py:359-372,
\* passes leverage=kwargs.get("leverage", 5) together with **kwargs to
\* MockOrderSignatureRequest: a TypeError when kwargs holds leverage
MockSignatureRequestRaises(kwargs) == "leverage" \in kwargs

\* The three-step flow: the calls made and whether a result came back.
\* A missing operation is an AttributeError at its step; the awaited post
\* may raise.
SignatureAttempt(c, leg, o, kwargs) ==
    LET csr(out) == Call("create_order_signature_request", leg, out, o)
        cso(out) == Call("create_signed_order", leg, out, o)
        pso(out) == Call("post_signed_order", leg, out, o)
    IN  IF c.kind = "mock" /\ MockSignatureRequestRaises(kwargs)
        THEN {[log |-> <<csr("raise")>>, ok |-> FALSE]}
        ELSE IF ~hasattr(c, "create_signed_order")
        THEN {[log |-> <<csr("ok")>>, ok |-> FALSE]}
        ELSE IF ~hasattr(c, "post_signed_order")
        THEN {[log |-> <<csr("ok"), cso("ok")>>, ok |-> FALSE]}
        ELSE IF c.kind = "mock"
        THEN {[log |-> <<csr("ok"), cso("ok"), pso("ok")>>, ok |-> TRUE]}
        ELSE {[log |-> <<csr("ok"), cso("ok"), pso("raise")>>, ok |-> FALSE],
              [log |-> <<csr("ok"), cso("ok"), pso("ok")>>, ok |-> TRUE]}

\* client.place_order(...): an AttributeError when the client has none
DirectAttempt(c, leg, o) ==
    IF ~hasattr(c, "place_order")
    THEN {[log |-> << >>, ok |-> FALSE]}
    ELSE {[log |-> <<Call("place_order", leg, "raise", o)>>, ok |-> FALSE],
          [log |-> <<Call("place_order", leg, "ok", o)>>, ok |-> TRUE]}

\* src/core/agent.py:1362
SignatureFlowAvailable(c) ==
    /\ hasattr(c, "create_order_signature_request")
    /\ hasattr(c, "create_signed_order")
    /\ hasattr(c, "post_signed_order")

\* src/core/agent.py:1361-1391
PrimaryAttempt(c, o) ==
    IF SignatureFlowAvailable(c)
    THEN SignatureAttempt(c, "primary", o, PrimaryKwargs)
    ELSE DirectAttempt(c, "primary", o)

\* src/core/agent.py:1412-1437 and 1459-1484
LegAttempt(c, leg, o) ==
    IF hasattr(c, "create_order_signature_request")
    THEN SignatureAttempt(c, leg, o, LegKwargs)
    ELSE DirectAttempt(c, leg, o)

\* What a successful primary submission can return.  The mock echoes the
\* signed order (price 0.0 when none was given); a live exchange may answer
\* with None, with {} ("empty"), with a dict without a price, with price 0
\* (an unpriced market order) or with a fill price, or with an object that
\* is no dict.
PrimaryResults(c, a, price) ==
    IF c.kind = "mock"
    THEN {[kind |-> "dict", symbol |-> a.symbol, side |-> a.side,
           price |-> IF price = None THEN Some(0) ELSE price]}
    ELSE {RetNone,
          [kind |-> "empty",  symbol |-> "", side |-> "", price |-> None],
          [kind |-> "object", symbol |-> a.symbol, side |-> a.side, price |-> None],
          [kind |-> "dict",   symbol |-> a.symbol, side |-> a.side, price |-> None],
          [kind |-> "dict",   symbol |-> a.symbol, side |-> a.side, price |-> Some(0)],
          [kind |-> "dict",   symbol |-> a.symbol, side |-> a.side, price |-> Some(200)]}

NoLegs == [sl |-> "none", tp |-> "none"]

\* execute_trade is entered: defaults are resolved and a missing client
\* ends the invocation (src/core/agent.py:1310-1330)
Start ==
    /\ UNCHANGED notTrade
    /\ program = "core"
    /\ pc = "idle"
    /\ \E a \in Invocations \cup OtherSideInvocations :
         LET size == ResolvePositionSize(a)
         IN  /\ args' = ResolveDefaults(a)
             /\ position_size' = size
             /\ IF client = NoClient
                THEN ret' = RetNone /\ pc' = "done"
                ELSE /\ ret' = Pending
                     /\ pc' = IF size = None THEN "sizing"
                                                        ELSE "leverage_read"
    /\ UNCHANGED <<client, exLeverage, sizerRaised, sizing, leverage_ok, market_price,
                   main_order, calls, legStatus>>

\* process_alerts reaches its live branch (src/core/agent.py:1551-1557): the
\* alert's values are bound and ensure_leverage(symbol, leverage) is called
\* before execute_trade
AlertStart ==
    /\ UNCHANGED notTrade
    /\ program = "core"
    /\ pc = "idle"
    /\ \E a \in AlertInvocations :
         /\ args' = ResolveDefaults(a)
         /\ position_size' = a.position_size
    /\ ret' = Pending
    /\ pc' = "alert_leverage_read"
    /\ UNCHANGED <<client, exLeverage, sizerRaised, sizing, leverage_ok, market_price,
                   main_order, calls, legStatus>>

\* position_size = await calculate_position_size(...)
\* (src/core/agent.py:1333-1339); an exception leaving the sizer would reach
\* the outer except clause of execute_trade (1492-1494)
Sizing ==
    /\ UNCHANGED notTrade
    /\ pc = "sizing"
    /\ \E b \in BalanceOutcomes(client), p \in MarketPrices(client) :
         LET r == calculate_position_size(b, args.risk_percentage,
                                          args.stop_loss_percentage, p)
         IN  /\ sizerRaised' = r.raised
             /\ sizing' = Some([stop_loss_percentage |-> args.stop_loss_percentage,
                                qty |-> r.qty])
             /\ IF r.escaped
                THEN /\ ret' = RetNone
                     /\ pc' = "done"
                     /\ UNCHANGED position_size
                ELSE /\ position_size' = Some(r.qty)
                     /\ pc' = "leverage_read"
                     /\ UNCHANGED ret
    /\ UNCHANGED <<client, exLeverage, args, leverage_ok, market_price,
                   main_order, calls, legStatus>>

\* A mutant of LeverageAlreadySet: the comparison never succeeds
LeverageNeverAlreadySet(current, target) == FALSE

\* if current_leverage == target_leverage (src/core/agent.py:2207)
LeverageAlreadySet(current, target) == current = target

\* if hasattr(client, 'set_leverage') ... elif hasattr(client, 'adjust_leverage')
Setter(c) == IF hasattr(c, "set_leverage") THEN "set_leverage"
             ELSE IF hasattr(c, "adjust_leverage") THEN "adjust_leverage"
             ELSE "none"

\* How a call of the setter can end: it raises, or it returns a dict with a
\* truthy 'success', a dict with a falsy 'success', a dict without the key,
\* or something that is no dict
SetterOutcomes == {"raise", "success", "failure", "noflag", "notdict"}

\* A mutant of ResultIndicatesSuccess: only an explicit failure counts as one
ResultNotFailure(out) == out \in {"success", "noflag", "notdict"}

\* isinstance(result, dict) and result.get('success', False)
\* (src/core/agent.py:2223)
ResultIndicatesSuccess(out) == out = "success"

\* What the exchange's leverage can be after a setter call that ended with
\* out: a call that reports success applied the value, a raising call changed
\* nothing, and any other answer leaves both possible
LeverageAfterSetter(out, target) ==
    IF out = "success" THEN {target}
    ELSE IF out = "raise" THEN {exLeverage}
    ELSE {exLeverage, target}

\* ensure_leverage up to the comparison (src/core/agent.py:2201-2209), called
\* from the place leg; next is "true", "false" or "set" (go on to the setter).
\* A client without get_user_leverage, or a raising read, ends in the except
\* clause (2230-2233).
ensure_leverage_read(leg, next) ==
    IF ~hasattr(client, "get_user_leverage")
    THEN next = "false" /\ UNCHANGED calls
    ELSE \E out \in Raises \cup {"ok"} :
           /\ calls' = Append(calls, Call("get_user_leverage", leg, out, NoParams))
           /\ next = IF out \in Raises THEN "false"
                     ELSE IF LeverageAlreadySet(exLeverage, leverage_value)
                     THEN "true" ELSE "set"

\* ensure_leverage from the setter on (src/core/agent.py:2214-2233)
ensure_leverage_set(leg, next) ==
    IF Setter(client) = "none"
    THEN next = "false" /\ UNCHANGED <<calls, exLeverage>>
    ELSE \E out \in SetterOutcomes :
           /\ exLeverage' \in LeverageAfterSetter(out, leverage_value)
           /\ calls' = Append(calls, Call(Setter(client), leg, out, NoParams))
           /\ next = IF out # "raise" /\ ResultIndicatesSuccess(out)
                     THEN "true" ELSE "false"

\* The ensure_leverage call of process_alerts (src/core/agent.py:1557), up
\* to the comparison.  Its result is discarded; execute_trade is entered
\* next (1560-1567), and returns None at once when there is no client.
AlertEnsureLeverageRead ==
    /\ UNCHANGED notTrade
    /\ pc = "alert_leverage_read"
    /\ \E next \in {"true", "false", "set"} :
         /\ ensure_leverage_read("alert_guard", next)
         /\ pc' = IF next = "set" THEN "alert_leverage_set"
                  ELSE IF client = NoClient THEN "done" ELSE "leverage_read"
    /\ ret' = IF client = NoClient THEN RetNone ELSE ret
    /\ UNCHANGED <<client, exLeverage, args, position_size, sizerRaised, sizing,
                   leverage_ok, market_price, main_order, legStatus>>

\* The ensure_leverage call of process_alerts from the setter on
AlertEnsureLeverageSet ==
    /\ UNCHANGED notTrade
    /\ pc = "alert_leverage_set"
    /\ pc' = "leverage_read"
    /\ \E next \in {"true", "false"} : ensure_leverage_set("alert_guard", next)
    /\ UNCHANGED <<client, args, position_size, sizerRaised, sizing, leverage_ok,
                   market_price, main_order, legStatus, ret>>

\* await ensure_leverage(symbol, leverage_value) in execute_trade
\* (src/core/agent.py:1347), up to the comparison
EnsureLeverageRead ==
    /\ UNCHANGED notTrade
    /\ pc = "leverage_read"
    /\ \E next \in {"true", "false", "set"} :
         /\ ensure_leverage_read("guard", next)
         /\ pc' = IF next = "set" THEN "leverage_set" ELSE "market_price"
         /\ leverage_ok' = IF next = "set" THEN leverage_ok ELSE next
    /\ UNCHANGED <<client, exLeverage, args, position_size, sizerRaised, sizing,
                   market_price, main_order, legStatus, ret>>

\* await ensure_leverage(symbol, leverage_value) in execute_trade, from the
\* setter on
EnsureLeverageSet ==
    /\ UNCHANGED notTrade
    /\ pc = "leverage_set"
    /\ pc' = "market_price"
    /\ \E next \in {"true", "false"} :
         /\ ensure_leverage_set("guard", next)
         /\ leverage_ok' = next
    /\ UNCHANGED <<client, args, position_size, sizerRaised, sizing, market_price,
                   main_order, legStatus, ret>>

\* market_price = await get_market_price(symbol) (src/core/agent.py:1349-1352)
GetMarketPrice ==
    /\ UNCHANGED notTrade
    /\ pc = "market_price"
    /\ \E p \in MarketPrices(client) : market_price' = Some(p)
    /\ pc' = "primary"
    /\ UNCHANGED <<client, exLeverage, args, position_size, sizerRaised, sizing,
                   leverage_ok, main_order, calls, legStatus, ret>>

\* if order_type == "LIMIT" and price is None: price = market_price
order_price ==
    IF args.order_type = "LIMIT" /\ args.price = None
    THEN market_price ELSE args.price

Scaled(price) == IF price = None THEN 0 ELSE 100 * Val(price)

\* The primary order (src/core/agent.py:1359-1391).  An exception reaches
\* the except clause of 1489-1491: execute_trade returns None.
SubmitPrimary ==
    /\ UNCHANGED notTrade
    /\ pc = "primary"
    /\ LET o == [side |-> args.side, order_type |-> args.order_type,
                 price100 |-> Scaled(order_price), reduce_only |-> FALSE,
                 size |-> Val(position_size)]
       IN  \E t \in PrimaryAttempt(client, o) :
             /\ calls' = calls \o t.log
             /\ IF t.ok
                THEN /\ \E m \in PrimaryResults(client, args, order_price) :
                          main_order' = m
                     /\ pc' = "stop_loss"
                     /\ UNCHANGED ret
                ELSE /\ main_order' = RaisedRes
                     /\ ret' = RetNone
                     /\ pc' = "done"
    /\ UNCHANGED <<client, exLeverage, args, position_size, sizerRaised, sizing,
                   leverage_ok, market_price, legStatus>>

\* A mutant of StopLossCondition: the primary result is not looked at
StopLossConditionBlind(sl, m) == Truthy(sl) /\ Val(sl) > 0

\* if stop_loss_percentage and stop_loss_percentage > 0 and main_order
StopLossCondition(sl, m) == Truthy(sl) /\ Val(sl) > 0 /\ OrderTruthy(m)

\* if take_profit_percentage and take_profit_percentage > 0 and main_order
TakeProfitCondition(tp, m) == Truthy(tp) /\ Val(tp) > 0 /\ OrderTruthy(m)

\* entry_price = main_order.get("price") if main_order.get("price") else market_price
entry_price == IF Truthy(main_order.price) THEN Val(main_order.price)
               ELSE Val(market_price)

OppositeSide(side) == IF side = "BUY" THEN "SELL" ELSE "BUY"

\* A mutant of StopLossOrder: the stop of a long position is put above the
\* entry price and that of a short position below
StopLossOrderInverted ==
    [side |-> OppositeSide(args.side), order_type |-> "STOP_MARKET",
     price100 |-> IF args.side = "BUY"
                  THEN entry_price * (100 + Val(args.stop_loss_percentage))
                  ELSE entry_price * (100 - Val(args.stop_loss_percentage)),
     reduce_only |-> TRUE, size |-> Val(position_size)]

\* The stop-loss order, price in hundredths (src/core/agent.py:1400-1421)
StopLossOrder ==
    [side |-> OppositeSide(args.side), order_type |-> "STOP_MARKET",
     price100 |-> IF args.side = "BUY"
                  THEN entry_price * (100 - Val(args.stop_loss_percentage))
                  ELSE entry_price * (100 + Val(args.stop_loss_percentage)),
     reduce_only |-> TRUE, size |-> Val(position_size)]

\* The take-profit order, price in hundredths (src/core/agent.py:1447-1468)
TakeProfitOrder ==
    [side |-> OppositeSide(args.side), order_type |-> "LIMIT",
     price100 |-> IF args.side = "BUY"
                  THEN entry_price * (100 + Val(args.take_profit_percentage))
                  ELSE entry_price * (100 - Val(args.take_profit_percentage)),
     reduce_only |-> TRUE, size |-> Val(position_size)]

\* A mutant of OnStopLossError: the exception leaves the leg's try block
OnStopLossErrorAbort == "abort"

\* except Exception as e: logger.error(...) (src/core/agent.py:1438-1439)
OnStopLossError == "continue"

\* The stop-loss leg (src/core/agent.py:1393-1439).  main_order.get on a
\* non-dict result raises inside the try block before any call is made.
PlaceStopLoss ==
    /\ UNCHANGED notTrade
    /\ pc = "stop_loss"
    /\ IF ~StopLossCondition(args.stop_loss_percentage, main_order)
       THEN /\ legStatus' = [legStatus EXCEPT !.sl = "skipped"]
            /\ pc' = "take_profit"
            /\ UNCHANGED <<calls, ret>>
       ELSE \E t \in (IF HasGet(main_order)
                      THEN LegAttempt(client, "sl", StopLossOrder)
                      ELSE {[log |-> << >>, ok |-> FALSE]}) :
              /\ calls' = calls \o t.log
              /\ legStatus' = [legStatus EXCEPT !.sl = IF t.ok THEN "ok" ELSE "failed"]
              /\ IF t.ok \/ OnStopLossError = "continue"
                 THEN pc' = "take_profit" /\ UNCHANGED ret
                 ELSE pc' = "done" /\ ret' = RetNone
    /\ UNCHANGED <<client, exLeverage, args, position_size, sizerRaised, sizing,
                   leverage_ok, market_price, main_order>>

\* The take-profit leg and the return (src/core/agent.py:1441-1488)
PlaceTakeProfit ==
    /\ UNCHANGED notTrade
    /\ pc = "take_profit"
    /\ IF ~TakeProfitCondition(args.take_profit_percentage, main_order)
       THEN /\ legStatus' = [legStatus EXCEPT !.tp = "skipped"]
            /\ UNCHANGED calls
       ELSE \E t \in (IF HasGet(main_order)
                      THEN LegAttempt(client, "tp", TakeProfitOrder)
                      ELSE {[log |-> << >>, ok |-> FALSE]}) :
              /\ calls' = calls \o t.log
              /\ legStatus' = [legStatus EXCEPT !.tp = IF t.ok THEN "ok" ELSE "failed"]
    /\ ret' = main_order
    /\ pc' = "done"
    /\ UNCHANGED <<client, exLeverage, args, position_size, sizerRaised, sizing,
                   leverage_ok, market_price, main_order>>

\* The locals of execute_trade before its next invocation
FreshLocals ==
    /\ pc' = "idle"
    /\ args' = NoArgs
    /\ position_size' = None
    /\ sizerRaised' = FALSE
    /\ sizing' = None
    /\ leverage_ok' = "unset"
    /\ market_price' = None
    /\ main_order' = Unset
    /\ calls' = << >>
    /\ legStatus' = NoLegs
    /\ ret' = Pending

\* The caller has the result; the next invocation starts from fresh locals
Finish ==
    /\ UNCHANGED notTrade
    /\ pc = "done"
    /\ FreshLocals
    /\ UNCHANGED <<client, exLeverage>>

TradeInit ==
    /\ client \in Clients
    /\ exLeverage \in {3, EnvLeverage}
    /\ pc = "idle"
    /\ args = NoArgs
    /\ position_size = None
    /\ sizerRaised = FALSE
    /\ sizing = None
    /\ leverage_ok = "unset"
    /\ market_price = None
    /\ main_order = Unset
    /\ calls = << >>
    /\ legStatus = NoLegs
    /\ ret = Pending

\* No invocation runs, there is no client
TradeIdle == TradeInit /\ client = NoClient /\ exLeverage = EnvLeverage

TradeNext ==
    \/ Start
    \/ AlertStart
    \/ AlertEnsureLeverageRead
    \/ AlertEnsureLeverageSet
    \/ Sizing
    \/ EnsureLeverageRead
    \/ EnsureLeverageSet
    \/ GetMarketPrice
    \/ SubmitPrimary
    \/ PlaceStopLoss
    \/ PlaceTakeProfit
    \/ Finish

-----------------------------------------------------------------------------
(* main and process_alerts, src/core/agent.py:1496-1672 *)

MaxAlerts     == 1   \* files in the alerts directory at the start
MaxIterations == 3   \* iterations of a main loop

\* No step of the current iteration has raised
NoRaise == [step |-> "", out |-> ""]

\* MOCK_TRADING = os.getenv("MOCK_TRADING", "True").lower() == "true", when
\* the module is imported (src/core/agent.py:108)
MockTradingAtImport(env) == env \in {"unset", "true"}

\* MOCK_TRADING = os.getenv("MOCK_TRADING", "false").lower() in
\* ["true", "1", "yes"], in init_bluefin_client (src/core/agent.py:708-709)
MockTradingAtInit(env) == env \in {"true", "1", "yes"}

\* The lower-cased values of the environment variable
MockEnvValues == {"unset", "true", "false"}

\* What init_bluefin_client and init_clients leave in the global client
\* (src/core/agent.py:711-780, 818-837): the mock client in mock mode and
\* when no library client could be set up; else a library client, which
\* init_clients replaces by the mock client when client.init,
\* get_public_address or get_account_info raises, as a missing
\* get_account_info does
InitializedClients(mock) ==
    IF mock THEN {MockBluefinClient}
    ELSE {MockBluefinClient}
         \cup {c \in Clients : c.kind = "live" /\ hasattr(c, "get_account_info")}

\* What an alert file can hold.  format tells what process_alerts meets:
\*   "direct"               {symbol, type: buy | sell, leverage}
\*   "indicator"            {indicator: vmanchu_cipher_b, action: BUY | SELL,
\*                           signal_type: one of the four valid signals}
\*   "direct_bad_type"      {symbol, type: "hold"}
\*   "direct_type_not_str"  {symbol, type: null}
\*   "indicator_bad_action" the indicator record with another action
\*   "indicator_bad_signal" the indicator record with another signal_type
\*   "unknown"              a JSON object or list with none of these keys
\*   "not_a_mapping"        a JSON number
\*   "undecodable"          no JSON
\* inv is the execute_trade call a valid alert leads to: here a direct alert
\* to buy with its own leverage, and an indicator alert to sell, which takes
\* the leverage of the environment.
InvalidFormats == {"direct_bad_type", "direct_type_not_str",
                   "indicator_bad_action", "indicator_bad_signal",
                   "unknown", "not_a_mapping", "undecodable"}

AlertFiles ==
    {[format |-> "direct", inv |-> a] :
        a \in {x \in AlertInvocations :
                  x.side = "BUY" /\ x.leverage = Some(3)}}
    \cup {[format |-> "indicator", inv |-> a] :
        a \in {x \in AlertInvocations :
                  x.side = "SELL" /\ x.leverage = Some(EnvLeverage)}}
    \cup {[format |-> fmt, inv |-> NoArgs] : fmt \in InvalidFormats}

\* What process_alerts does with one file (src/core/agent.py:1521-1546,
\* 1572-1606, 1636-1646).  "removed": os.remove and on to the next file;
\* "raised": "symbol" in alert (TypeError) or trade_type.lower()
\* (AttributeError) raises inside the outer try block, whose
\* except Exception clause only logs; "trade": the alert is valid.
AlertVerdict(f) ==
    IF f.format = "undecodable" THEN "removed"
    ELSE IF f.format \in {"not_a_mapping", "direct_type_not_str"} THEN "raised"
    ELSE IF f.format \in {"direct_bad_type", "indicator_bad_action",
                          "indicator_bad_signal", "unknown"} THEN "removed"
    ELSE "trade"

NotSeen == [reads |-> 0, leverage |-> 0, trades |-> 0]

\* await init_clients() (src/core/agent.py:1661, 808-843)
InitClients ==
    /\ UNCHANGED notAlertLoop
    /\ loop_pc = "init_clients"
    /\ MOCK_TRADING' = MockTradingAtInit(mock_env)
    /\ client' \in InitializedClients(MOCK_TRADING')
    /\ loop_pc' = "listdir"
    /\ iteration' = 1
    /\ UNCHANGED <<exLeverage, pc, args, position_size, sizerRaised, sizing,
                   leverage_ok, market_price, main_order, calls, legStatus, ret>>
    /\ UNCHANGED <<errors, raisedAt, tries, mock_env, alerts, todo, alert_path,
                   seen>>

\* process_alerts is entered: os.listdir("alerts") (src/core/agent.py:1512-
\* 1517).  An OSError leaves process_alerts and is caught by main (1670).
ListAlerts ==
    /\ UNCHANGED notAlertLoop
    /\ UNCHANGED tradeVars
    /\ loop_pc = "listdir"
    /\ \E out \in {"ok", "raise"} :
         IF out = "ok"
         THEN /\ todo' = alerts
              /\ loop_pc' = "files"
              /\ UNCHANGED <<errors, raisedAt>>
         ELSE /\ errors' = errors + 1
              /\ raisedAt' = [step |-> "listdir", out |-> out]
              /\ loop_pc' = "main_sleep"
              /\ UNCHANGED todo
    /\ UNCHANGED <<iteration, tries, mock_env, MOCK_TRADING, alerts, alert_path,
                   seen>>

\* One file of the listing (src/core/agent.py:1518-1646).  A valid alert in
\* live mode calls ensure_leverage and then execute_trade (1557-1567,
\* 1623-1633); the file is removed when they are back.
ProcessAlert ==
    /\ UNCHANGED notAlertLoop
    /\ loop_pc = "files"
    /\ \E f \in todo :
         LET v    == AlertVerdict(f)
             live == v = "trade" /\ ~MOCK_TRADING
         IN  /\ todo' = todo \ {f}
             /\ seen' = [seen EXCEPT ![f].reads = @ + 1,
                                     ![f].leverage = IF live THEN @ + 1 ELSE @]
             /\ IF live
                THEN /\ alert_path' = Some(f)
                     /\ loop_pc' = "trade"
                     /\ args' = ResolveDefaults(f.inv)
                     /\ position_size' = f.inv.position_size
                     /\ ret' = Pending
                     /\ pc' = "alert_leverage_read"
                     /\ UNCHANGED alerts
                ELSE /\ alerts' = IF v = "raised" THEN alerts ELSE alerts \ {f}
                     /\ UNCHANGED <<alert_path, loop_pc, args, position_size,
                                    ret, pc>>
    /\ UNCHANGED <<client, exLeverage, sizerRaised, sizing, leverage_ok,
                   market_price, main_order, calls, legStatus>>
    /\ UNCHANGED <<iteration, errors, raisedAt, tries, mock_env, MOCK_TRADING>>

\* execute_trade is back in process_alerts; whatever it returned, and
\* whatever the inner try block caught, os.remove(alert_path) follows
\* (src/core/agent.py:1568-1569, 1634-1635, 1640)
AlertTradeReturned ==
    /\ UNCHANGED notAlertLoop
    /\ loop_pc = "trade"
    /\ pc = "done"
    /\ FreshLocals
    /\ alerts' = alerts \ {Val(alert_path)}
    /\ seen' = [seen EXCEPT ![Val(alert_path)].trades = @ + 1]
    /\ alert_path' = None
    /\ loop_pc' = "files"
    /\ UNCHANGED <<client, exLeverage>>
    /\ UNCHANGED <<iteration, errors, raisedAt, tries, mock_env, MOCK_TRADING,
                   todo>>

\* The listing is exhausted: await asyncio.sleep(1) and process_alerts
\* returns (src/core/agent.py:1649)
EndPass ==
    /\ UNCHANGED notAlertLoop
    /\ UNCHANGED tradeVars
    /\ loop_pc = "files"
    /\ todo = {}
    /\ loop_pc' = "main_sleep"
    /\ UNCHANGED <<iteration, errors, raisedAt, tries>>
    /\ UNCHANGED alertVars

\* await asyncio.sleep(1) of main, after a pass that returned and after one
\* that raised alike; then the next pass (src/core/agent.py:1667-1672)
MainSleep ==
    /\ UNCHANGED notAlertLoop
    /\ UNCHANGED tradeVars
    /\ loop_pc = "main_sleep"
    /\ iteration < MaxIterations
    /\ iteration' = iteration + 1
    /\ raisedAt' = NoRaise
    /\ loop_pc' = "listdir"
    /\ UNCHANGED <<errors, tries>>
    /\ UNCHANGED alertVars

\* main() of src/core/agent.py starts: the module is imported, the global
\* client is None, the alerts directory holds some files
AlertLoopInit ==
    /\ TradeIdle
    /\ mock_env \in MockEnvValues
    /\ MOCK_TRADING = MockTradingAtImport(mock_env)
    /\ alerts \in {fs \in SUBSET AlertFiles : Cardinality(fs) <= MaxAlerts}
    /\ todo = {}
    /\ alert_path = None
    /\ seen = [f \in alerts |-> NotSeen]
    /\ loop_pc = "init_clients"
    /\ iteration = 0
    /\ errors = 0
    /\ raisedAt = NoRaise
    /\ tries = 0

-----------------------------------------------------------------------------
(* execute_trade(client, trade_rec, account_info), src/agent.py:542-736 *)

MinConfidencePct       == 70     \* TRADING_PARAMS["min_confidence"]
AgentLeverage          == 5      \* TRADING_PARAMS["leverage"]
AgentMaxPositionSize   == 1000   \* TRADING_PARAMS["max_position_size_usd"]
AgentRiskPerTradePct   == 1      \* RiskManager.max_risk_per_trade
AgentSizePrecision     == 10000  \* round(position_size, 4)
AgentMinSizeDenom      == 1000   \* min_position_size = 0.001

\* BLUEFIN_CLIENT_SUI_AVAILABLE, BLUEFIN_V2_CLIENT_AVAILABLE
\* (src/agent.py:128-129, 157, 170)
BLUEFIN_CLIENT_SUI_AVAILABLE == library = "sui"
BLUEFIN_V2_CLIENT_AVAILABLE  == library = "v2"

\* The three operations of the signature flow (src/core/agent.py:1362)
SignatureCaps == {"create_order_signature_request", "create_signed_order",
                  "post_signed_order"}

\* The class BluefinClient that src/agent.py defines when no library could
\* be imported (src/agent.py:182-240)
AgentFallbackClient ==
    [kind |-> "live",
     caps |-> {"get_user_leverage", "create_signed_order", "post_signed_order",
               "get_account_info", "place_order"}]

\* The client of an imported library: its class is not part of the
\* repository, so the operations it offers are left open
LibraryClients ==
    {[kind |-> "live", caps |-> cs] :
        cs \in {{}, {"create_signed_order"}, {"place_order"}, {"create_order"},
                {"create_order", "place_order"},
                SignatureCaps, SignatureCaps \cup {"submit_order"},
                SignatureCaps \cup {"place_order"},
                SignatureCaps \cup {"create_order"}}}

AgentClients(lib) ==
    {NoClient} \cup (IF lib = "none" THEN {AgentFallbackClient} ELSE LibraryClients)

\* trade_rec: None or {} ("empty"), a dict without 'action' ("no_action"),
\* a dict with action and confidence only ("no_prices"), or all the keys
\* extract_trade_recommendation gives (src/agent.py:529-537)
TradeRecs ==
    {[shape |-> "empty", action |-> "", confidence |-> 0, entry_price |-> 0,
      stop_loss |-> 0],
     [shape |-> "no_action", action |-> "", confidence |-> 0, entry_price |-> 0,
      stop_loss |-> 0],
     [shape |-> "no_prices", action |-> "BUY", confidence |-> 90,
      entry_price |-> 0, stop_loss |-> 0]}
    \cup [shape : {"full"}, action : {"BUY", "SELL", "NONE", "HOLD"},
          confidence : {50, 90}, entry_price : {100}, stop_loss : {95, 100}]

NoRec == [shape |-> "", action |-> "", confidence |-> 0, entry_price |-> 0,
          stop_loss |-> 0]

\* account_info: None, or a dict with this balance
AccountInfos == {None, Some(0), Some(1000)}

\* Results of execute_trade: {"success": True, "order": ...}, or
\* {"success": False, "error" | "reason": ...}; "escaped" is an exception
\* that left the function
AgentPending         == [kind |-> "pending", error |-> ""]
AgentSuccess         == [kind |-> "success", error |-> ""]
AgentFailure(error)  == [kind |-> "failure", error |-> error]
AgentEscaped(error)  == [kind |-> "escaped", error |-> error]
AgentProceed         == [kind |-> "proceed", error |-> ""]

\* RiskManager.calculate_position_size(entry_price, stop_loss) times the
\* leverage (src/agent.py:294-299, 594, 600), as an exact ratio
AgentPositionSize(balance, entry, stop) ==
    IF entry = stop THEN Rat(0, 1)
    ELSE Rat(balance * AgentRiskPerTradePct * AgentLeverage, 100 * Abs(entry - stop))

\* position_size < min_position_size (src/agent.py:604-607)
AgentTooSmall(r) == r.n * AgentMinSizeDenom < r.d

\* The cap and the rounding (src/agent.py:610-616), in ten-thousandths
AgentFinalSize(r) ==
    IF r.n > AgentMaxPositionSize * r.d
    THEN AgentMaxPositionSize * AgentSizePrecision
    ELSE RoundHalfEven(r.n * AgentSizePrecision, r.d)

\* trade_rec["action"] at src/agent.py:566 is evaluated before the try
\* block of 570: its KeyError leaves execute_trade
AgentOnGuardKeyError == AgentEscaped("KeyError")

\* if trade_rec["action"] == "NONE" or trade_rec["confidence"] <
\* TRADING_PARAMS.get("min_confidence", 0.7) (src/agent.py:566)
LowConfidenceOrNoneNever(rec) == FALSE
LowConfidenceOrNone(rec) ==
    rec.action = "NONE" \/ rec.confidence < MinConfidencePct

\* execute_trade up to the selection of the order flow
\* (src/agent.py:558-626): the failure it returns, or AgentProceed
AgentValidate(c, rec, info) ==
    IF c = NoClient THEN AgentFailure("Client not initialized")
    ELSE IF rec.shape = "empty" THEN AgentFailure("Invalid trade recommendation")
    ELSE IF rec.shape = "no_action" THEN AgentOnGuardKeyError
    ELSE IF LowConfidenceOrNone(rec)
    THEN AgentFailure("Low confidence or NONE action")
    ELSE IF rec.shape = "no_prices" \/ info = None THEN AgentFailure("exception")
    ELSE IF Val(info) <= 0 THEN AgentFailure("Invalid account balance")
    ELSE IF AgentTooSmall(AgentPositionSize(Val(info), rec.entry_price, rec.stop_loss))
    THEN AgentFailure("Position size too small")
    ELSE IF rec.action \notin {"BUY", "SELL"} THEN AgentFailure("Invalid action")
    ELSE AgentProceed

\* The order flow execute_trade selects (src/agent.py:637-699)
AgentFlow(c) ==
    IF BLUEFIN_CLIENT_SUI_AVAILABLE
    THEN IF hasattr(c, "place_order") THEN "place_order"
         ELSE IF hasattr(c, "create_signed_order") THEN "signed"
         ELSE "unsupported"
    ELSE IF BLUEFIN_V2_CLIENT_AVAILABLE
    THEN IF hasattr(c, "create_order") THEN "create_order"
         ELSE IF hasattr(c, "place_order") THEN "place_order"
         ELSE "unsupported"
    ELSE "simulate"

AgentCall(op, out) == [op |-> op, out |-> out]

\* The result execute_trade builds from what the exchange call gave
\* (src/agent.py:701-717, 730-732); out is "ok" (a truthy result), "none",
\* or one of Raises
AgentResultOf(out) ==
    IF out = "ok" THEN AgentSuccess
    ELSE IF out = "none" THEN AgentFailure("No result returned from order execution")
    ELSE AgentFailure("exception")

\* The calls of the selected flow and the result (src/agent.py:634-717).
\* A missing submit_order is an AttributeError: nothing reaches the exchange.
AgentAttempt(c) ==
    LET flow == AgentFlow(c)
    IN  IF flow = "unsupported"
        THEN {[log |-> << >>, res |-> AgentFailure("Unsupported client implementation")]}
        ELSE IF flow = "simulate"
        THEN {[log |-> << >>, res |-> AgentSuccess]}
        ELSE IF flow = "signed"
        THEN {[log |-> <<AgentCall("create_signed_order", out)>>,
               res |-> AgentFailure("exception")] : out \in Raises}
             \cup (IF ~hasattr(c, "submit_order")
                   THEN {[log |-> <<AgentCall("create_signed_order", "ok")>>,
                          res |-> AgentFailure("exception")]}
                   ELSE {[log |-> <<AgentCall("create_signed_order", "ok"),
                                    AgentCall("submit_order", out)>>,
                          res |-> AgentResultOf(out)] :
                            out \in Raises \cup {"ok", "none"}})
        ELSE {[log |-> <<AgentCall(flow, out)>>, res |-> AgentResultOf(out)] :
                 out \in Raises \cup {"ok", "none"}}

\* execute_trade(client, rec, info) runs up to its first exchange call
EnterExecuteTrade(rec, info) ==
    LET v == AgentValidate(a_client, rec, info)
    IN  IF v = AgentProceed
        THEN /\ a_pc' = "submit"
             /\ a_size' = AgentFinalSize(
                   AgentPositionSize(Val(info), rec.entry_price, rec.stop_loss))
             /\ UNCHANGED execution_result
        ELSE /\ a_pc' = "done"
             /\ execution_result' = v
             /\ UNCHANGED a_size

\* execute_trade is called by a caller other than the loop of main
AgentExecuteTrade ==
    /\ UNCHANGED notAgent
    /\ program = "agent"
    /\ loop_pc = "off"
    /\ a_pc = "idle"
    /\ \E rec \in TradeRecs, info \in AccountInfos :
         /\ trade_rec' = rec
         /\ account_info' = info
         /\ EnterExecuteTrade(rec, info)
    /\ UNCHANGED <<program, library, a_client, a_calls>>

\* The exchange calls of the selected flow, and the return
AgentSubmit ==
    /\ UNCHANGED notAgent
    /\ a_pc = "submit"
    /\ \E t \in AgentAttempt(a_client) :
         /\ a_calls' = a_calls \o t.log
         /\ execution_result' = t.res
    /\ a_pc' = "done"
    /\ UNCHANGED <<program, library, a_client, trade_rec, account_info, a_size>>

\* The caller has the result; the next invocation starts from fresh locals
AgentReturn ==
    /\ UNCHANGED notAgent
    /\ loop_pc = "off"
    /\ a_pc = "done"
    /\ a_pc' = "idle"
    /\ trade_rec' = NoRec
    /\ account_info' = None
    /\ a_size' = 0
    /\ a_calls' = << >>
    /\ execution_result' = AgentPending
    /\ UNCHANGED <<program, library, a_client>>

AgentLocalsInit ==
    /\ a_pc = "idle"
    /\ trade_rec = NoRec
    /\ account_info = None
    /\ a_size = 0
    /\ a_calls = << >>
    /\ execution_result = AgentPending

\* src/agent.py runs, with one of the libraries or none
AgentInit ==
    /\ program = "agent"
    /\ library \in {"sui", "v2", "none"}
    /\ a_client \in AgentClients(library)
    /\ AgentLocalsInit

\* src/core/agent.py runs: nothing of src/agent.py exists
AgentIdle ==
    /\ program = "core"
    /\ library = "none"
    /\ a_client = NoClient
    /\ AgentLocalsInit

AgentNext ==
    \/ AgentExecuteTrade
    \/ AgentSubmit
    \/ AgentReturn

-----------------------------------------------------------------------------
(* The trading loop of main, src/agent.py:865-916 *)

MaxTries == 3   \* max_tries of backoff.on_exception

\* Where the loop goes when an iteration raised: the except clause of
\* src/agent.py:913-916 logs and sleeps 30 seconds inside the while loop
LoopAfterErrorStops == "stopped"
LoopAfterError == "error_sleep"

\* backoff.on_exception(backoff.expo, (asyncio.TimeoutError, ConnectionError,
\* OSError), max_tries=3, max_time=30) around get_account_info
\* (src/agent.py:326-329): an attempt that raised is repeated when the
\* exception is of a listed class ("timeout"), fewer than max_tries attempts
\* were made and max_time has not run out
BackoffRetries(out, attempt, timeLeft) ==
    out = "timeout" /\ attempt < MaxTries /\ timeLeft

\* if trade_rec["action"] != "NONE" and trade_rec["confidence"] >=
\* TRADING_PARAMS.get("min_confidence", 0.7) (src/agent.py:878)
LoopGuard(rec) == rec.action # "NONE" /\ rec.confidence >= MinConfidencePct

\* What extract_trade_recommendation returns: all keys are present
\* (src/agent.py:483-537)
ProviderRecs == {r \in TradeRecs : r.shape = "full"}

\* Its default, also returned for an analysis that carries an error
\* (src/agent.py:483-494)
DefaultRec == [shape |-> "full", action |-> "NONE", confidence |-> 0,
               entry_price |-> 0, stop_loss |-> 0]

\* An exception reaches the except clause of the loop
LoopRaise(step, out) ==
    /\ loop_pc' = LoopAfterError
    /\ errors' = errors + 1
    /\ raisedAt' = [step |-> step, out |-> out]

\* account_info = await get_account_info(client): one attempt under the
\* retry decorator (src/agent.py:869, 326-370)
LoopAccount ==
    /\ UNCHANGED notTradingLoop
    /\ loop_pc = "account"
    /\ \E out \in Raises \cup {"ok"}, timeLeft \in BOOLEAN,
          info \in AccountInfos \ {None} :
         /\ tries' = tries + 1
         /\ IF out = "ok"
            THEN /\ account_info' = info
                 /\ loop_pc' = "recommend"
                 /\ UNCHANGED <<errors, raisedAt>>
            ELSE /\ UNCHANGED account_info
                 /\ IF BackoffRetries(out, tries + 1, timeLeft)
                    THEN UNCHANGED <<loop_pc, errors, raisedAt>>
                    ELSE LoopRaise("account", out)
    /\ UNCHANGED <<program, library, a_client, a_pc, trade_rec, a_size, a_calls,
                   execution_result>>
    /\ UNCHANGED iteration

\* analyze_tradingview_chart, extract_trade_recommendation, the guard and
\* the call of execute_trade (src/agent.py:872-879).  The analysis returns
\* a dict with an error instead of raising (src/agent.py:458-466); the
\* Recommendation Provider may raise.
LoopRecommend ==
    /\ UNCHANGED notTradingLoop
    /\ loop_pc = "recommend"
    /\ \E out \in {"ok", "analysis_error", "raise"}, rec \in ProviderRecs :
         IF out = "raise"
         THEN /\ LoopRaise("recommend", out)
              /\ UNCHANGED <<a_pc, trade_rec, a_size, execution_result>>
         ELSE LET r == IF out = "analysis_error" THEN DefaultRec ELSE rec
              IN  /\ trade_rec' = r
                  /\ IF LoopGuard(r)
                     THEN /\ EnterExecuteTrade(r, account_info)
                          /\ loop_pc' = "trade"
                     ELSE /\ loop_pc' = "sleep"
                          /\ UNCHANGED <<a_pc, a_size, execution_result>>
                  /\ UNCHANGED <<errors, raisedAt>>
    /\ UNCHANGED <<program, library, a_client, account_info, a_calls>>
    /\ UNCHANGED <<iteration, tries>>

\* execute_trade is back: the analysis and the result are written to a file
\* (src/agent.py:881-904), which may raise; an exception that left
\* execute_trade reaches the except clause as well
LoopTradeReturned ==
    /\ UNCHANGED notTradingLoop
    /\ loop_pc = "trade"
    /\ a_pc = "done"
    /\ \E out \in {"ok", "raise"} :
         IF execution_result.kind = "escaped"
         THEN LoopRaise("trade", "raise")
         ELSE IF out = "raise"
         THEN LoopRaise("save", out)
         ELSE /\ loop_pc' = "sleep"
              /\ UNCHANGED <<errors, raisedAt>>
    /\ UNCHANGED agentVars
    /\ UNCHANGED <<iteration, tries>>

\* The next iteration starts from its own locals
NextIteration ==
    /\ iteration < MaxIterations
    /\ iteration' = iteration + 1
    /\ loop_pc' = "account"
    /\ raisedAt' = NoRaise
    /\ tries' = 0
    /\ a_pc' = "idle"
    /\ trade_rec' = NoRec
    /\ account_info' = None
    /\ a_size' = 0
    /\ a_calls' = << >>
    /\ execution_result' = AgentPending
    /\ UNCHANGED <<program, library, a_client, errors>>

\* await asyncio.sleep(wait_time) (src/agent.py:909-911)
LoopSleep ==
    /\ UNCHANGED notTradingLoop
    /\ loop_pc = "sleep"
    /\ NextIteration

\* await asyncio.sleep(30) in the except clause (src/agent.py:913-916)
LoopErrorSleep ==
    /\ UNCHANGED notTradingLoop
    /\ loop_pc = "error_sleep"
    /\ NextIteration

\* main() of src/agent.py has set up the client of an imported library and
\* enters the loop (src/agent.py:770-866); without a library it returns
TradingLoopInit ==
    /\ program = "agent"
    /\ library \in {"sui", "v2"}
    /\ a_client \in LibraryClients
    /\ AgentLocalsInit
    /\ loop_pc = "account"
    /\ iteration = 1
    /\ errors = 0
    /\ raisedAt = NoRaise
    /\ tries = 0

-----------------------------------------------------------------------------
(* The sizers applied to bounded inputs *)

MaxPrice    == 7   \* prices 0..MaxPrice
MaxBalanceK == 5   \* balances 0, 1000, ..., 1000 * MaxBalanceK

SizerInputs ==
    [balance : {Raised} \cup {Returned(1000 * k) : k \in 0..MaxBalanceK},
     risk : {None, Some(1), Some(2), Some(100)},
     sl : {None, Some(0), Some(1), Some(5), Some(100)},
     price : 0..MaxPrice,
     entry_price : {100},
     stop_loss : {95, 100}]

NoResult == [fn |-> "pending", raised |-> FALSE, qty |-> 0, ratio |-> Rat(0, 1)]

SizerInit ==
    /\ szIn \in SizerInputs
    /\ szOut = NoResult

\* await calculate_position_size(symbol, side, risk_percentage, stop_loss_percentage)
SizeAsync ==
    /\ UNCHANGED notSizer
    /\ szOut.fn = "pending"
    /\ LET r == calculate_position_size(szIn.balance, szIn.risk, szIn.sl, szIn.price)
       IN  szOut' = [fn |-> "calculate_position_size", raised |-> r.raised,
                     qty |-> r.qty, ratio |-> Rat(0, 1)]
    /\ UNCHANGED szIn

\* risk_manager.calculate_position_size(entry_price, stop_loss)
SizeRiskManager ==
    /\ UNCHANGED notSizer
    /\ szOut.fn = "pending"
    /\ szOut' = [fn |-> "RiskManager.calculate_position_size", raised |-> FALSE,
                 qty |-> 0,
                 ratio |-> RiskManager_calculate_position_size(szIn.entry_price,
                                                               szIn.stop_loss)]
    /\ UNCHANGED szIn

SizerNext == SizeAsync \/ SizeRiskManager

-----------------------------------------------------------------------------
(* Specifications *)

NoSizerInput == [balance |-> Raised, risk |-> None, sl |-> None, price |-> 0,
                 entry_price |-> 0, stop_loss |-> 0]

SizerIdle  == szIn = NoSizerInput /\ szOut = NoResult

\* main() does not run: execute_trade is called by another caller
LoopIdle ==
    /\ loop_pc = "off"
    /\ iteration = 0
    /\ errors = 0
    /\ raisedAt = NoRaise
    /\ tries = 0

\* No alert loop: live trading, an empty alerts directory
AlertIdle ==
    /\ mock_env = "false"
    /\ MOCK_TRADING = FALSE
    /\ alerts = {}
    /\ todo = {}
    /\ alert_path = None
    /\ seen = << >>

\* One of the two programs runs
Init ==
    /\ \/ TradeInit /\ AgentIdle
       \/ TradeIdle /\ AgentInit
    /\ LedgerInit
    /\ SizerIdle
    /\ LoopIdle
    /\ AlertIdle
Next == TradeNext \/ AgentNext
Spec == Init /\ [][Next]_vars

\* main() of one of the two programs runs, or execute_trade of src/agent.py
\* is called without the loop
LoopInit ==
    /\ \/ AlertLoopInit /\ AgentIdle
       \/ TradingLoopInit /\ TradeIdle /\ AlertIdle
       \/ AgentInit /\ LoopIdle /\ TradeIdle /\ AlertIdle
    /\ LedgerInit
    /\ SizerIdle
LoopNext ==
    \/ InitClients
    \/ ListAlerts
    \/ ProcessAlert
    \/ AlertEnsureLeverageRead
    \/ AlertEnsureLeverageSet
    \/ EnsureLeverageRead
    \/ EnsureLeverageSet
    \/ GetMarketPrice
    \/ SubmitPrimary
    \/ PlaceStopLoss
    \/ PlaceTakeProfit
    \/ AlertTradeReturned
    \/ EndPass
    \/ MainSleep
    \/ LoopAccount
    \/ LoopRecommend
    \/ AgentExecuteTrade
    \/ AgentSubmit
    \/ AgentReturn
    \/ LoopTradeReturned
    \/ LoopSleep
    \/ LoopErrorSleep
\* The event loop runs whatever step main() can take: each await returns
LoopSpec == LoopInit /\ [][LoopNext]_vars /\ WF_vars(LoopNext)

LedgerSpecInit == TradeIdle /\ AgentIdle /\ LedgerInit /\ SizerIdle
                  /\ LoopIdle /\ AlertIdle
LedgerSpecNext == LedgerNext
LedgerSpec     == LedgerSpecInit /\ [][LedgerSpecNext]_vars

SizerSpecInit == TradeIdle /\ AgentIdle /\ LedgerInit /\ SizerInit
                 /\ LoopIdle /\ AlertIdle
SizerSpecNext == SizerNext
SizerSpec     == SizerSpecInit /\ [][SizerSpecNext]_vars

-----------------------------------------------------------------------------
(* Properties of execute_trade, checked under Spec *)

CallsOf(legs) == {i \in DOMAIN calls : calls[i].leg \in legs}

OrderLegs == {"primary", "sl", "tp"}

\* C1: when ensure_leverage returned false, the invocation submits no
\* primary order and no protective leg.
C1_NoSubmissionAfterGuardFailure ==
    (leverage_ok = "false") => CallsOf(OrderLegs) = {}

\* C2: the exchange calls of one invocation are strictly ordered: every
\* call of the leverage guard comes before the first primary-order call and
\* the guard has returned by then; every primary-order call comes before
\* any leg call, and a leg call is issued only after the primary submission
\* returned a non-empty result (never after it raised or returned nothing).
C2_StrictOrdering ==
    /\ \A i \in CallsOf({"guard"}), j \in CallsOf(OrderLegs) : i < j
    /\ \A i \in CallsOf({"primary"}), j \in CallsOf({"sl", "tp"}) : i < j
    /\ (CallsOf(OrderLegs) # {}) => leverage_ok # "unset"
    /\ (CallsOf({"sl", "tp"}) # {}) => OrderTruthy(main_order)

\* C2 witness: an invocation that called the guard, the primary flow and
\* both legs has returned.
C2_Witness ==
    /\ pc = "done"
    /\ CallsOf({"guard"}) # {}
    /\ CallsOf({"primary"}) # {}
    /\ CallsOf({"sl"}) # {}
    /\ CallsOf({"tp"}) # {}

\* C3: once the primary order succeeded, a failing stop-loss or take-profit
\* leg does not change the returned value (the primary result), no
\* cancel_order is ever called, and a failed stop-loss leg is followed by
\* the attempt of a requested take-profit leg.
C3_LegFailureIsolated ==
    (pc = "done" /\ OrderTruthy(main_order)) =>
        /\ ret = main_order
        /\ \A i \in DOMAIN calls : calls[i].op # "cancel_order"
        /\ (legStatus.sl = "failed" /\ Truthy(args.take_profit_percentage)
              /\ Val(args.take_profit_percentage) > 0)
             => legStatus.tp \in {"ok", "failed"}

\* C3 witness: the stop-loss leg raised at the exchange, the take-profit
\* leg was placed and the primary result was returned.
C3_Witness ==
    /\ pc = "done"
    /\ main_order.kind = "dict"
    /\ legStatus = [sl |-> "failed", tp |-> "ok"]
    /\ \E i \in CallsOf({"sl"}) : calls[i].out = "raise"
    /\ ret = main_order

\* C4: with MockBluefinClient as the global client,
\* execute_trade("BTC-PERP", "BUY", order_type="MARKET") returns an order
\* result whose symbol is BTC-PERP and whose side is BUY.
C4_MockTradeReturnsOrder ==
    (/\ pc = "done"
     /\ client = MockBluefinClient
     /\ args.symbol = "BTC-PERP" /\ args.side = "BUY" /\ args.order_type = "MARKET")
    => (ret.kind = "dict" /\ ret.symbol = "BTC-PERP" /\ ret.side = "BUY")

\* C10: calculate_position_size never lets an exception out: when a step of
\* it raised, the position size is the fallback 0.001 and execute_trade
\* went on to the leverage guard instead of ending in its except clause.
C10_SizerFallback ==
    sizerRaised =>
        /\ position_size = Some(FallbackQty)
        /\ pc \notin {"idle", "sizing"}
        /\ (pc = "done") => leverage_ok # "unset"

\* C10 witness: the sizer raised and the trade was still submitted, with
\* the fallback quantity.
C10_Witness ==
    /\ sizerRaised
    /\ pc = "done"
    /\ ret.kind = "dict"
    /\ \E i \in CallsOf({"primary"}) : calls[i].out = "ok" /\ calls[i].size = FallbackQty

\* The leverage-setting calls made by the ensure_leverage calls of legs
SetterCalls(legs) ==
    {i \in CallsOf(legs) : calls[i].op \in {"set_leverage", "adjust_leverage"}}

BothGuards == {"alert_guard", "guard"}

\* C11 as stated: the two successive calls ensure_leverage(symbol, N) of
\* process_alerts and of the execute_trade it invokes perform at most one
\* leverage-setting call in total.
C11_AtMostOneSetterCall ==
    (args.caller = "alert") => Cardinality(SetterCalls(BothGuards)) <= 1

\* C11 amended: each of the two successive calls performs at most one
\* leverage-setting call, and the second call performs one only when the
\* setter call of the first raised or did not report success.
C11_OneSetterCallUnlessFirstFailed ==
    (args.caller = "alert") =>
        /\ Cardinality(SetterCalls({"alert_guard"})) <= 1
        /\ Cardinality(SetterCalls({"guard"})) <= 1
        /\ (SetterCalls({"guard"}) # {}) =>
              \A i \in SetterCalls({"alert_guard"}) : calls[i].out # "success"

\* C11 witness: the first call set the leverage with success, and the second
\* call has read the leverage and returned true without a setter call.
C11_Witness ==
    /\ args.caller = "alert"
    /\ pc = "market_price"
    /\ leverage_ok = "true"
    /\ \E i \in SetterCalls({"alert_guard"}) : calls[i].out = "success"
    /\ \E i \in CallsOf({"guard"}) : calls[i].op = "get_user_leverage"
    /\ SetterCalls({"guard"}) = {}

\* C12: once the ensure_leverage call of execute_trade has returned, its
\* result is true exactly when either the leverage read equalled the target
\* and no setter was called, or the setter was called and answered with a
\* dict holding a truthy 'success'; a missing read or setter, a raising
\* call, and an answer without a success flag all give false.
C12_TrueExactlyWhenSetOrConfirmed ==
    (leverage_ok # "unset") =>
        (leverage_ok = "true" <=>
            \/ /\ SetterCalls({"guard"}) = {}
               /\ \E i \in CallsOf({"guard"}) :
                     calls[i].op = "get_user_leverage" /\ calls[i].out = "ok"
               /\ exLeverage = leverage_value
            \/ \E i \in SetterCalls({"guard"}) : calls[i].out = "success")

\* C12 witness: the setter answered with a dict that has no 'success' key
\* and ensure_leverage returned false.
C12_Witness ==
    /\ leverage_ok = "false"
    /\ pc = "market_price"
    /\ \E i \in SetterCalls({"guard"}) : calls[i].out = "noflag"

\* The entry price E of C13: the price the primary result reports, the
\* market price when it reports none (or 0, an unpriced market order)
ReportedOrMarketPrice ==
    IF main_order.price # None /\ Val(main_order.price) # 0
    THEN Val(main_order.price) ELSE Val(market_price)

DirectOps == {"place_order", "create_order"}

\* Operations that submit an order to the exchange
SubmitOps == DirectOps \cup {"post_signed_order", "submit_order"}

\* C14: in both implementations of execute_trade, a client that offers
\* create_order_signature_request, create_signed_order and
\* post_signed_order never gets the primary order through a direct
\* place_order or create_order call.
C14_SignatureFlowPreferred ==
    /\ SignatureFlowAvailable(client) =>
          \A i \in CallsOf({"primary"}) : calls[i].op \notin DirectOps
    /\ (a_client # NoClient /\ SignatureCaps \subseteq a_client.caps) =>
          \A i \in DOMAIN a_calls : a_calls[i].op \notin DirectOps

\* The client offers neither the signature operations nor a direct one
NoOrderCapability(c) ==
    /\ c # NoClient
    /\ ~(SignatureCaps \subseteq c.caps)
    /\ c.caps \cap DirectOps = {}

\* C15: in both implementations, an execute_trade invocation on a client
\* with neither the signature operations nor create_order/place_order has
\* submitted nothing and, once it is over, has returned a failure value
\* (None, or a dict with success False) and has not raised.
C15_UnsupportedClientFails ==
    /\ NoOrderCapability(client) =>
          /\ \A i \in DOMAIN calls : calls[i].op \notin SubmitOps
          /\ (pc = "done") => ret = RetNone
    /\ NoOrderCapability(a_client) =>
          /\ \A i \in DOMAIN a_calls : a_calls[i].op \notin SubmitOps
          /\ (a_pc = "done") => execution_result.kind = "failure"

\* C16: in both implementations, execute_trade never lets an exception
\* escape: once it is over it has returned an order result or a failure
\* value, and the failure value when the primary submission raised.
C16_NoExceptionEscapes ==
    /\ (pc = "done") =>
          /\ ret.kind \in {"None", "empty", "dict", "object"}
          /\ (main_order = RaisedRes) => ret = RetNone
    /\ (a_pc = "done") =>
          /\ execution_result.kind \in {"success", "failure"}
          /\ (\E i \in DOMAIN a_calls : a_calls[i].out \in Raises)
                => execution_result.kind = "failure"

\* C26: in one invocation the protective legs go through the flow of the
\* primary order: a leg call is one of the three signature operations
\* exactly when the primary calls are.
C26_LegsUseFlowOfPrimary ==
    \A i \in CallsOf({"primary"}), j \in CallsOf({"sl", "tp"}) :
        (calls[i].op \in SignatureCaps) <=> (calls[j].op \in SignatureCaps)

\* C23: in both implementations, an invocation with no client, with an
\* action or side that is neither BUY nor SELL, or (src/agent.py, for a
\* recommendation that states its action) with an account balance of zero
\* or less makes no exchange call that submits an order and, once it is
\* over, has returned a failure value.
C23_PreconditionFailuresSubmitNothing ==
    /\ (pc # "idle" /\ (client = NoClient \/ args.side \notin {"BUY", "SELL"})) =>
          /\ \A i \in DOMAIN calls : calls[i].op \notin SubmitOps
          /\ (pc = "done") => ret = RetNone
    /\ (/\ a_pc # "idle"
        /\ trade_rec.shape \in {"full", "no_prices"}
        /\ \/ a_client = NoClient
           \/ trade_rec.action \notin {"BUY", "SELL"}
           \/ account_info # None /\ Val(account_info) <= 0) =>
          /\ \A i \in DOMAIN a_calls : a_calls[i].op \notin SubmitOps
          /\ (a_pc = "done") => execution_result.kind = "failure"

\* C27: an invocation called without a position_size argument submits its
\* primary order with the quantity calculate_position_size returned, and
\* its stop-loss leg uses the stop-loss percentage the sizer was given.
C27_SizedByRiskSizer ==
    (args.caller = "direct" /\ args.position_size = None) =>
        /\ \A i \in CallsOf({"primary"}) :
              (calls[i].op \in SubmitOps) =>
                  sizing # None /\ calls[i].size = Val(sizing).qty
        /\ \A i \in CallsOf({"sl"}) :
              /\ sizing # None
              /\ Val(sizing).stop_loss_percentage = args.stop_loss_percentage

-----------------------------------------------------------------------------
(* Properties of the Order Ledger, checked under LedgerSpec *)

EventHandled == evCount' = evCount + 1

\* C5: after k OrderRequeueUpdate events handled for a Ledger entry, its
\* requeue_count is k; its price is the original one while k <= 2 and the
\* original x1.01 (BUY) or x0.99 (SELL) after the third.
C5_RequeueCountAndPrice ==
    \A h \in DOMAIN orders :
        LET k == hist[h].requeues
            o == orders[h]
        IN  /\ o.requeue_count = k
            /\ (k <= REQUEUE_ADJUSTMENT_THRESHOLD) => RatEq(o.price, hist[h].price)
            /\ (k = REQUEUE_ADJUSTMENT_THRESHOLD + 1) =>
                  RatEq(o.price, IF o.side = "BUY"
                                 THEN RatMul(hist[h].price, 101, 100)
                                 ELSE RatMul(hist[h].price, 99, 100))

\* C6: an event of any of the three kinds whose orderHash is no key of the
\* Ledger raises nothing, creates no entry, changes no entry and leaves the
\* requeue counters alone.
C6_UnknownHashIgnored ==
    [][(EventHandled /\ ~HasOrder(lastEvent'.orderHash)) =>
          /\ orders' = orders
          /\ requeue_counts' = requeue_counts
          /\ ~lastEvent'.raised]_vars

\* C6 witness: a requeue event for an unknown hash was handled while the
\* Ledger held an entry.
C6_Witness ==
    /\ lastEvent.kind = "OrderRequeueUpdate"
    /\ ~lastEvent.known
    /\ DOMAIN orders # {}

\* C7: an OrderCancelledOnReversionUpdate event for a Ledger entry sets
\* cancelled on that entry and changes no other field of it and no other
\* entry.
C7_CancelFrame ==
    [][(/\ EventHandled
        /\ lastEvent'.kind = "OrderCancelledOnReversionUpdate"
        /\ HasOrder(lastEvent'.orderHash)) =>
          orders' = [orders EXCEPT ![lastEvent'.orderHash].cancelled = TRUE]]_vars

\* C7 witness: an entry that was settled before has been cancelled,
\* beside another entry.
C7_Witness ==
    /\ lastEvent.kind = "OrderCancelledOnReversionUpdate"
    /\ lastEvent.known
    /\ orders[lastEvent.orderHash].cancelled
    /\ orders[lastEvent.orderHash].settlement_status = "sent"
    /\ Cardinality(DOMAIN orders) > 1

\* C17: every Ledger entry is stored under its Order's own hash, that hash
\* is one the exchange flow assigned (not the empty one), no two submitted
\* orders were stored under one key, and so an order without a hash is not
\* in the Ledger.
C17_KeyedByOwnAssignedHash ==
    \A h \in DOMAIN orders :
        /\ orders[h].hash = h
        /\ h # EmptyHash
        /\ ~hist[h].shared

\* C18: an entry of the Ledger stays in it in every step, as the same Order
\* object: no place_order call and no event removes it or stores another
\* Order under its key.
C18_EntriesStay ==
    [][\A h \in DOMAIN orders :
          /\ h \in DOMAIN orders'
          /\ hist'[h].shared = hist[h].shared]_vars

\* An OrderSettlementUpdate event for a known hash is handled in this step
SettlementHandled ==
    /\ EventHandled
    /\ lastEvent'.kind = "OrderSettlementUpdate"
    /\ lastEvent'.known

\* C19: handling an OrderSettlementUpdate event for an order present in the
\* Ledger leaves the entry with settlement_status "sent" and with the
\* fill_price, matched_quantity and is_maker of that event, whatever
\* earlier events had set.
C19_SettlementOverwrites ==
    [][SettlementHandled =>
          LET o == orders'[lastEvent'.orderHash]
              e == lastEvent'.payload
          IN  /\ o.settlement_status = "sent"
              /\ o.fill_price = e.avgFillPrice
              /\ o.matched_quantity = e.quantitySentForSettlement
              /\ o.is_maker = e.isMaker]_vars

\* C19 witness: a second settlement event for the same entry has been
\* handled, and the entry holds the values of that event.
C19_Witness ==
    /\ lastEvent.kind = "OrderSettlementUpdate"
    /\ lastEvent.known
    /\ hist[lastEvent.orderHash].settlements >= 2
    /\ orders[lastEvent.orderHash].matched_quantity = 1
    /\ orders[lastEvent.orderHash].fill_price = 100

\* The fields a handler of this kind writes
WrittenBy(kind) ==
    IF kind = "OrderSettlementUpdate"
    THEN {"settlement_status", "fill_price", "matched_quantity", "is_maker"}
    ELSE IF kind = "OrderRequeueUpdate" THEN {"price"}
    ELSE {"cancelled"}

\* The fields the handlers write
HandlerFields == WrittenBy("OrderSettlementUpdate")
                 \cup WrittenBy("OrderRequeueUpdate")
                 \cup WrittenBy("OrderCancelledOnReversionUpdate")

\* Some handler has updated the entry under this key
EntryUpdated(h) ==
    hist[h].settlements > 0 \/ hist[h].requeues > 0 \/ orders[h].cancelled

\* C20: in every step, a Ledger entry that handlers have updated keeps what
\* they wrote: a field the handlers write changes only in the step of a
\* handler for the entry's own hash that writes this field; the
\* registration of place_order and the other handlers leave it as it is.
C20_NoLostUpdate ==
    [][\A h \in DOMAIN orders :
          EntryUpdated(h) =>
              /\ h \in DOMAIN orders'
              /\ \A f \in HandlerFields :
                    (orders'[h][f] # orders[h][f]) =>
                        /\ EventHandled
                        /\ lastEvent'.orderHash = h
                        /\ f \in WrittenBy(lastEvent'.kind)]_vars

\* The entry shows the effect of the event
AppliedTo(h, ev) ==
    IF ev.kind = "OrderSettlementUpdate"
    THEN /\ orders'[h].settlement_status = "sent"
         /\ orders'[h].fill_price = ev.payload.avgFillPrice
         /\ orders'[h].matched_quantity = ev.payload.quantitySentForSettlement
    ELSE IF ev.kind = "OrderRequeueUpdate"
    THEN DictGet0(requeue_counts', h) >= 1
    ELSE orders'[h].cancelled

\* C30: an event delivered for the order of a place_order that was still
\* suspended in post_signed_order shows in that order's Ledger entry once
\* the order is registered; and a place_order that ends without
\* registering its order leaves the Ledger and the requeue counters as
\* they were.
C30_InFlightEventsApplied ==
    [][LET h == lastEvent'.orderHash
       IN  /\ (lastEvent'.pending /\ h # EmptyHash /\ h \in DOMAIN orders')
                 => AppliedTo(h, lastEvent')
           /\ (inflight.busy /\ ~inflight'.busy
                 /\ inflight.orderHash \notin DOMAIN orders')
                 => orders' = orders /\ requeue_counts' = requeue_counts]_vars

-----------------------------------------------------------------------------
(* Properties of the position sizers, checked under SizerSpec *)

InUnitInterval(pct) == pct # None /\ Val(pct) \in 1..100

\* C8: for risk_percentage and stop_loss_percentage in (0,1], a balance
\* above 0 and a price above 0, calculate_position_size returns a quantity
\* q with 0 <= q <= max_position_size_usd / current_price.
C8_SizeWithinCap ==
    (/\ szOut.fn = "calculate_position_size"
     /\ ~szIn.balance.raised /\ szIn.balance.v > 0
     /\ szIn.price > 0
     /\ InUnitInterval(szIn.risk) /\ InUnitInterval(szIn.sl))
    => (/\ szOut.qty >= 0
        /\ szOut.qty * szIn.price <= QtyPrecision * MaxPositionSizeUsd)

\* C9: when the stop-loss distance gives zero price risk (entry equal to
\* stop, a stop_loss_percentage of 0, or a price product of 0), both sizers
\* return exactly 0.
C9_ZeroRiskGivesZero ==
    /\ (szOut.fn = "RiskManager.calculate_position_size"
          /\ szIn.entry_price = szIn.stop_loss) => szOut.ratio.n = 0
    /\ (szOut.fn = "calculate_position_size" /\ ~szIn.balance.raised
          /\ (szIn.sl = Some(0) \/ szIn.price = 0)) => szOut.qty = 0


-----------------------------------------------------------------------------
(* Properties of the main loops, checked under LoopSpec *)

\* C21: an iteration of a main loop that raises does not end the loop: the
\* exception is caught, the loop sleeps, and the next iteration starts.  In
\* every iteration but the last one the model allows, a raised exception
\* leads to the next iteration, and an iteration that raised is left only
\* from one of the sleeps.
C21_LoopSurvivesRaisingIteration ==
    /\ \A n \in 1..(MaxIterations - 1) :
          (iteration = n /\ raisedAt # NoRaise) ~> (iteration = n + 1)
    /\ [][(raisedAt # NoRaise /\ iteration' # iteration)
             => loop_pc \in {"error_sleep", "main_sleep"}]_vars

\* An iteration of the trading loop raised and the next one has started
C21_Witness ==
    /\ program = "agent"
    /\ errors >= 1
    /\ raisedAt = NoRaise
    /\ iteration >= 2
    /\ loop_pc = "account"

\* C22: no order is submitted for a recommendation whose action is NONE or
\* whose confidence is below the minimum, neither by the trading loop nor
\* inside execute_trade(client, trade_rec, account_info): the loop does
\* not call execute_trade for it, an invocation made for it makes no
\* exchange call, and what it returns is not a success.
C22_NoOrderForNoneOrLowConfidence ==
    (/\ program = "agent"
     /\ trade_rec # NoRec
     /\ trade_rec.action = "NONE" \/ trade_rec.confidence < MinConfidencePct) =>
        /\ a_calls = << >>
        /\ loop_pc # "trade"
        /\ execution_result.kind # "success"

\* execute_trade has refused a recommendation for its action or confidence
C22_Witness ==
    /\ a_pc = "done"
    /\ trade_rec.shape = "full"
    /\ execution_result = AgentFailure("Low confidence or NONE action")

\* C29: when the environment variable MOCK_TRADING is unset or 'true', the
\* program of src/core/agent.py is in mock mode for the whole run, before
\* and after the client is initialized: process_alerts only logs a valid
\* alert and calls neither ensure_leverage nor execute_trade.
C29_MockModeNeverTrades ==
    (program = "core" /\ loop_pc # "off" /\ mock_env \in {"unset", "true"}) =>
        /\ MOCK_TRADING
        /\ \A f \in DOMAIN seen : seen[f].leverage = 0 /\ seen[f].trades = 0
        /\ pc = "idle"
        /\ calls = << >>

\* C24: an alert record that is unsupported or invalid (a direct record
\* whose type is not buy or sell, an indicator record with another action
\* or signal_type, an unknown format, undecodable JSON) is discarded by
\* process_alerts: once it has been read its file is removed, and neither
\* ensure_leverage nor execute_trade was called for it nor was the Order
\* Ledger changed.
C24_InvalidAlertDiscarded ==
    \A f \in DOMAIN seen :
        (f.format \in InvalidFormats /\ seen[f].reads >= 1) =>
            /\ f \notin alerts
            /\ seen[f].leverage = 0
            /\ seen[f].trades = 0
            /\ DOMAIN orders = {}

\* C28: every alert file process_alerts reads is deleted by the end of that
\* pass, and over any number of passes one alert file causes at most one
\* invocation of execute_trade, also when the handling of the alert raises.
C28_ReadFilesDeletedTradedOnce ==
    /\ (loop_pc = "main_sleep" /\ raisedAt = NoRaise) =>
          \A f \in DOMAIN seen : seen[f].reads >= 1 => f \notin alerts
    /\ \A f \in DOMAIN seen : seen[f].trades <= 1

\* C25: a transient I/O error (timeout, connection error) raised by an
\* account, leverage or order call is retried, at most MaxTries attempts per
\* call, and when the attempts are used up the failure propagates to the
\* caller; other errors are not retried.  get_account_info is attempted at
\* most MaxTries times and no more once an error has left it; an order call of
\* execute_trade (src/agent.py) and a leverage read of ensure_leverage that
\* timed out are followed by another attempt of the same call, unless the
\* exception left the function.
C25_TransientErrorsRetried ==
    /\ tries <= MaxTries
    /\ (raisedAt.step = "account") => loop_pc # "account"
    /\ (program = "agent" /\ a_pc = "done") =>
          \A i \in DOMAIN a_calls :
              a_calls[i].out = "timeout" =>
                  \/ \E j \in DOMAIN a_calls :
                        j > i /\ a_calls[j].op = a_calls[i].op
                  \/ execution_result.kind = "escaped"
    /\ (pc = "done") =>
          \A i \in DOMAIN calls :
              (calls[i].op = "get_user_leverage" /\ calls[i].out = "timeout") =>
                  \E j \in DOMAIN calls :
                      /\ j > i
                      /\ calls[j].op = calls[i].op
                      /\ calls[j].leg = calls[i].leg

=============================================================================
